---------------------------- MODULE Spec2Model ----------------------------
(***************************************************************************)
(* Model of the trade_simulate back-testing scripts:                       *)
(*   simulate.py   make_plan, simulate (ladder position simulator)         *)
(*   단순화.py      simulate_no_scale (single-step simulator)               *)
(*   연속매매.py    compute_signals, run_reversal_backtest (chained mode)   *)
(*                                                                         *)
(* Prices and every quantity derived from them are floating-point numbers  *)
(* in the scripts.  They are modelled as exact rationals over arbitrary    *)
(* precision naturals (sequences of base-1000 limbs)  , so that the         *)
(* products of the four-step ladder do not leave the range of the model    *)
(* checker's integers.  Rounding of the floating-point unit is not         *)
(* modelled.                                                               *)
(***************************************************************************)
EXTENDS Integers, Sequences, FiniteSets, Bags, TLC

(***************************************************************************)
(* Arbitrary precision naturals: little-endian sequences of limbs in       *)
(* 0..999 without a most significant zero limb; << >> is zero.  The        *)
(* operators are written without recursion: a carry is found by looking    *)
(* at the lower limbs, a sum of products is the cardinality of a bag.      *)
(* Each operator binds its arguments to the variables of singleton sets,   *)
(* so that an argument is evaluated once.                                  *)
(***************************************************************************)
Max(S) == CHOOSE x \in S : \A y \in S : y <= x
Min(S) == CHOOSE x \in S : \A y \in S : x <= y

Limb(a, k) == IF k >= 1 /\ k <= Len(a) THEN a[k] ELSE 0

\* a without its most significant zero limbs
BStripV(a) == SubSeq(a, 1, Max({0} \cup {k \in 1..Len(a) : a[k] # 0}))
BStrip(a) == CHOOSE r \in { BStripV(av) : av \in {a} } : TRUE

\* the limbs of an integer 0 <= n < 2^31
BigOf(n) ==
    BStrip(<<n % 1000, (n \div 1000) % 1000, (n \div 1000000) % 1000,
             n \div 1000000000>>)

\* the value of a natural of at most three limbs
IntOf(a) == Limb(a, 1) + 1000 * Limb(a, 2) + 1000000 * Limb(a, 3)

\* the limbs of the number whose limb k is s[k] in 0..1998, the last one 0:
\* a carry enters limb k when a lower limb overflows and the limbs between
\* them are 999
BCarryV(s) ==
    BStripV([k \in 1..Len(s) |->
               (s[k] + (IF \E j \in 1..(k - 1) :
                             s[j] >= 1000 /\ \A h \in (j + 1)..(k - 1) : s[h] = 999
                          THEN 1 ELSE 0)) % 1000])
BCarry(s) == CHOOSE r \in { BCarryV(sv) : sv \in {s} } : TRUE

BAddV(a, b) ==
    BCarry(SubSeq([k \in 1..(Max({Len(a), Len(b)}) + 1) |-> Limb(a, k) + Limb(b, k)],
                  1, Max({Len(a), Len(b)}) + 1))
BAdd(a, b) == CHOOSE r \in { BAddV(av, bv) : av \in {a}, bv \in {b} } : TRUE

\* the limbs of the number whose limb k is d[k] in -999..999, for a number
\* that is not negative: a borrow enters limb k when a lower limb is
\* negative and the limbs between them are 0
BBorrowV(d) ==
    BStripV([k \in 1..Len(d) |->
               (d[k] + 1000 - (IF \E j \in 1..(k - 1) :
                                    d[j] < 0 /\ \A h \in (j + 1)..(k - 1) : d[h] = 0
                                 THEN 1 ELSE 0)) % 1000])
BBorrow(d) == CHOOSE r \in { BBorrowV(dv) : dv \in {d} } : TRUE

\* a - b for a >= b
BSubV(a, b) == BBorrow(SubSeq([k \in 1..Len(a) |-> a[k] - Limb(b, k)], 1, Len(a)))
BSub(a, b) == CHOOSE r \in { BSubV(av, bv) : av \in {a}, bv \in {b} } : TRUE

\* -1, 0, 1 as a < b, a = b, a > b
BCmpV(a, b) ==
    IF Len(a) # Len(b) THEN (IF Len(a) < Len(b) THEN -1 ELSE 1)
    ELSE IF a = b THEN 0
    ELSE CHOOSE r \in
           { IF a[k] < b[k] THEN -1 ELSE 1 :
             k \in { Max({h \in 1..Len(a) : a[h] # b[h]}) } } : TRUE
BCmp(a, b) == CHOOSE r \in { BCmpV(av, bv) : av \in {a}, bv \in {b} } : TRUE

\* the sum of the products a[h] * b[j] with h + j = k + 1
BColumn(a, b, k) ==
    BagCardinality([h \in {h \in 1..Len(a) : /\ k + 1 - h >= 1
                                            /\ k + 1 - h <= Len(b)
                                            /\ a[h] * b[k + 1 - h] > 0}
                     |-> a[h] * b[k + 1 - h]])

\* every limb keeps its value below 1000 and hands the rest to the next one
BRoundV(v) ==
    SubSeq([k \in 1..Len(v) |->
              (v[k] % 1000) + (IF k > 1 THEN v[k - 1] \div 1000 ELSE 0)], 1, Len(v))
BRound(v) == CHOOSE r \in { BRoundV(vv) : vv \in {v} } : TRUE

\* a * b: the columns are below 2^31 for fewer than 2000 limbs, and three
\* rounds bring every limb below 1003
BMulV(a, b) ==
    IF a = << >> \/ b = << >> THEN << >>
    ELSE BCarry(BRound(BRound(BRound(
           SubSeq([k \in 1..(Len(a) + Len(b)) |-> BColumn(a, b, k)],
                  1, Len(a) + Len(b))))))
BMul(a, b) == CHOOSE r \in { BMulV(av, bv) : av \in {a}, bv \in {b} } : TRUE

\* the number of least significant zero limbs of a # 0
BZeros(a) == Min({k \in 1..Len(a) : a[k] # 0}) - 1

\* the greatest common divisor of integers a >= 0 and b >= 0 below 2^31:
\* 2^k steps of Euclid's algorithm in k levels, and 2^6 steps suffice
GcdStep(p) == IF p[2] = 0 THEN p ELSE <<p[2], p[1] % p[2]>>

RECURSIVE GcdIter(_, _)
GcdIter(p, k) ==
    IF p[2] = 0 THEN p
    ELSE IF k = 0 THEN GcdStep(p)
    ELSE CHOOSE r \in
           { GcdIter(y, k - 1) : y \in { GcdIter(z, k - 1) : z \in {p} } } : TRUE

GcdInt(a, b) == GcdIter(<<a, b>>, 6)[1]

(***************************************************************************)
(* Rationals [sg, n, d]: sign sg in {-1, 0, 1} and magnitude n / d, d > 0. *)
(* A rational whose numerator and denominator have at most three limbs is  *)
(* in lowest terms; a larger one has had the common powers of 1000 taken   *)
(* out only.  Rationals are compared with RCmp.                            *)
(***************************************************************************)
Zero == [sg |-> 0, n |-> << >>, d |-> <<1>>]

RShiftV(sg, n, d, z) ==
    [sg |-> sg, n |-> SubSeq(n, z + 1, Len(n)), d |-> SubSeq(d, z + 1, Len(d))]

RNormV(sg, n, d) ==
    IF n = << >> \/ sg = 0 THEN Zero
    ELSE IF Len(n) <= 3 /\ Len(d) <= 3
      THEN CHOOSE r \in
             { [sg |-> sg, n |-> BigOf(IntOf(n) \div g), d |-> BigOf(IntOf(d) \div g)] :
               g \in {GcdInt(IntOf(n), IntOf(d))} } : TRUE
    ELSE CHOOSE r \in
           { RShiftV(sg, n, d, z) : z \in {Min({BZeros(n), BZeros(d)})} } : TRUE

RNorm(sg, n, d) ==
    CHOOSE r \in
      { IF Len(v.n) <= 3 /\ Len(v.d) <= 3 THEN RNormV(v.sg, v.n, v.d) ELSE v :
        v \in { RNormV(sg, nv, dv) : nv \in {n}, dv \in {d} } } : TRUE

\* the rational a / b for integers a and b > 0
Rat(a, b) ==
    RNorm(IF a < 0 THEN -1 ELSE IF a = 0 THEN 0 ELSE 1,
          BigOf(IF a < 0 THEN -a ELSE a), BigOf(b))

RNeg(x) == CHOOSE r \in { [xv EXCEPT !.sg = -xv.sg] : xv \in {x} } : TRUE

RMulV(x, y) == RNorm(x.sg * y.sg, BMul(x.n, y.n), BMul(x.d, y.d))
RMul(x, y) == CHOOSE r \in { RMulV(xv, yv) : xv \in {x}, yv \in {y} } : TRUE

\* x / y for y # 0
RDivV(x, y) == RNorm(x.sg * y.sg, BMul(x.n, y.d), BMul(x.d, y.n))
RDiv(x, y) == CHOOSE r \in { RDivV(xv, yv) : xv \in {x}, yv \in {y} } : TRUE

\* sg * (p + q) / d for sg = sp = sq, else sp * (p - q) / d
RSumV(sp, p, sq, q, d) ==
    IF sp = sq THEN RNorm(sp, BAdd(p, q), d)
    ELSE CHOOSE r \in
           { IF c = 0 THEN Zero
             ELSE IF c > 0 THEN RNorm(sp, BSub(p, q), d)
             ELSE RNorm(sq, BSub(q, p), d) : c \in {BCmpV(p, q)} } : TRUE

RAddV(x, y) ==
    IF x.sg = 0 THEN y
    ELSE IF y.sg = 0 THEN x
    ELSE IF x.d = y.d THEN RSumV(x.sg, x.n, y.sg, y.n, x.d)
    ELSE CHOOSE r \in
           { RSumV(x.sg, p, y.sg, q, d) :
             p \in {BMul(x.n, y.d)}, q \in {BMul(y.n, x.d)}, d \in {BMul(x.d, y.d)} } : TRUE

RAdd(x, y) == CHOOSE r \in { RAddV(xv, yv) : xv \in {x}, yv \in {y} } : TRUE

RSub(x, y) == RAdd(x, RNeg(y))

\* -1, 0, 1 as x < y, x = y, x > y
RCmpV(x, y) ==
    IF x.sg # y.sg THEN (IF x.sg < y.sg THEN -1 ELSE 1)
    ELSE IF x.sg = 0 THEN 0
    ELSE x.sg * BCmp(BMul(x.n, y.d), BMul(y.n, x.d))

RCmp(x, y) == CHOOSE r \in { RCmpV(xv, yv) : xv \in {x}, yv \in {y} } : TRUE

RLe(x, y) == RCmp(x, y) <= 0
RLt(x, y) == RCmp(x, y) < 0
REq(x, y) == RCmp(x, y) = 0
RGe(x, y) == RCmp(x, y) >= 0

(***************************************************************************)
(* Strategy parameters of simulate.py.                                     *)
(***************************************************************************)
LEVERAGE == 20
ROI_NET == Rat(5, 100)
FEE_MAKER == Rat(2, 10000)
INIT_M == 2000
ADD_M == 800
DROPS == <<Rat(1, 100), Rat(2, 100), Rat(3, 100), Rat(4, 100)>>
MMR == Rat(5, 1000)

One == Rat(1, 1)

(***************************************************************************)
(* make_plan: the ladder plan of an entry price, steps 0 .. Len(DROPS).    *)
(* Step k of a plan is its element k + 1.                                  *)
(***************************************************************************)
\* PlanStep with the round-trip maker fee added to the target: a variant the
\* code does not have
PlanStepWithFees(k, trigger, avg, t, m, q) ==
    [step |-> k, trigger |-> trigger, avg |-> avg,
     tp |-> RMul(avg, RAdd(RAdd(One, t), RMul(Rat(2, 1), FEE_MAKER))),
     margin |-> m, qty |-> q]

\* PlanStep with the take-profit price at the trigger: a faulty variant
PlanStepTpAtTrigger(k, trigger, avg, t, m, q) ==
    [step |-> k, trigger |-> trigger, avg |-> avg, tp |-> trigger,
     margin |-> m, qty |-> q]

PlanStep(k, trigger, avg, t, m, q) ==
    [step |-> k, trigger |-> trigger, avg |-> avg,
     tp |-> RMul(avg, RAdd(One, t)), margin |-> m, qty |-> q]

\* PlanAdd with q assigned, not added to: a faulty variant
PlanAddQtyReset(plan, d, t, m, n, q, avg) ==
    CHOOSE r \in
      { [plan |-> Append(plan, PlanStep(Len(plan), trigger_price, navg, t,
                                        m + ADD_M, nq)),
         m |-> m + ADD_M, n |-> n + ADD_M * LEVERAGE, q |-> nq, avg |-> navg] :
        <<trigger_price, nq, navg>> \in
          { <<tr, q2, RDiv(Rat(n + ADD_M * LEVERAGE, 1), q2)>> :
            <<tr, q2>> \in
              { <<tr0, RDiv(Rat(ADD_M * LEVERAGE, 1), tr0)>> :
                tr0 \in {RMul(avg, RSub(One, d))} } } } : TRUE

\* PlanAdd with the trigger taken from the entry price, not from the
\* average: a faulty variant
PlanAddFromEntry(plan, d, t, m, n, q, avg) ==
    CHOOSE r \in
      { [plan |-> Append(plan, PlanStep(Len(plan), trigger_price, navg, t,
                                        m + ADD_M, nq)),
         m |-> m + ADD_M, n |-> n + ADD_M * LEVERAGE, q |-> nq, avg |-> navg] :
        <<trigger_price, nq, navg>> \in
          { <<tr, q2, RDiv(Rat(n + ADD_M * LEVERAGE, 1), q2)>> :
            <<tr, q2>> \in
              { <<tr0, RAdd(q, RDiv(Rat(ADD_M * LEVERAGE, 1), tr0))>> :
                tr0 \in {RMul(plan[1].avg, RSub(One, d))} } } } : TRUE

\* one pass of the loop over DROPS, from the values of m, n, q, avg before it
PlanAdd(plan, d, t, m, n, q, avg) ==
    CHOOSE r \in
      { [plan |-> Append(plan, PlanStep(Len(plan), trigger_price, navg, t,
                                        m + ADD_M, nq)),
         m |-> m + ADD_M, n |-> n + ADD_M * LEVERAGE, q |-> nq, avg |-> navg] :
        <<trigger_price, nq, navg>> \in
          { <<tr, q2, RDiv(Rat(n + ADD_M * LEVERAGE, 1), q2)>> :
            <<tr, q2>> \in
              { <<tr0, RAdd(q, RDiv(Rat(ADD_M * LEVERAGE, 1), tr0))>> :
                tr0 \in {RMul(avg, RSub(One, d))} } } } : TRUE

RECURSIVE PlanLoop(_, _, _)
PlanLoop(st, drops, t) ==
    IF drops = << >> THEN st.plan
    ELSE CHOOSE p \in
           { PlanLoop(nx, Tail(drops), t) :
             nx \in {PlanAdd(st.plan, Head(drops), t, st.m, st.n, st.q, st.avg)} } : TRUE

make_plan(entry) ==
    LET t == RDiv(ROI_NET, Rat(LEVERAGE, 1))
        m == INIT_M
        n == INIT_M * LEVERAGE
        q == RDiv(Rat(n, 1), entry)
        avg == entry
    IN  PlanLoop([plan |-> <<PlanStep(0, entry, avg, t, m, q)>>,
                  m |-> m, n |-> n, q |-> q, avg |-> avg], DROPS, t)

\* LiqLong with the margin left out: a faulty variant, the liquidation price
\* above the average
LiqLongNoMargin(avg, qty, margin, mmr) ==
    RDiv(RMul(avg, qty), RMul(qty, RSub(One, mmr)))

\* the liquidation price of a long position (simulate.py, line 79)
LiqLong(avg, qty, margin, mmr) ==
    RDiv(RSub(RMul(avg, qty), Rat(margin, 1)), RMul(qty, RSub(One, mmr)))

\* the liquidation price of a short position (연속매매.py, line 66)
LiqShort(avg, qty, margin, mmr) ==
    RDiv(RAdd(Rat(margin, 1), RMul(qty, avg)), RMul(qty, RAdd(One, mmr)))

(***************************************************************************)
(* Bounds of the model and the price series it is run on.                  *)
(***************************************************************************)
MaxLen == 4
MaxTime == MaxLen - 1

\* prices in ticks: from an entry at 400 the take-profit price is 401, the
\* first trigger 396, 381 lies between the liquidation prices of steps 0
\* and 3, and 372 lies below the last trigger and liquidation price
Prices == {372, 381, 396, 400, 401}

None == -1

RECURSIVE IncSeqs(_, _)
IncSeqs(n, lo) ==
    IF n = 0 THEN {<< >>}
    ELSE UNION { { <<t>> \o s : s \in IncSeqs(n - 1, t + 1) } : t \in lo..MaxTime }

\* a price series: rows (time, price), times strictly increasing
SeriesOfLen(n) ==
    { [k \in 1..n |-> [time |-> ts[k], price |-> ps[k]]] :
      ts \in IncSeqs(n, 0), ps \in [1..n -> Prices] }

Series == UNION { SeriesOfLen(n) : n \in 0..MaxLen }

\* make_plan and liq_price (simulate.py, 76-79) of every step, tabulated once
\* for each entry price of the model
PlanTable ==
    { <<e, pl, [k \in 1..Len(pl) |-> LiqLong(pl[k].avg, pl[k].qty, pl[k].margin, MMR)]>> :
      <<e, pl>> \in { <<e0, make_plan(Rat(e0, 1))>> : e0 \in Prices } }

PlanOf(e) == (CHOOSE r \in PlanTable : r[1] = e)[2]
LiqOf(e) == (CHOOSE r \in PlanTable : r[1] = e)[3]

\* the prices of the single-step scenario: the entry price 100, 101 above
\* its take-profit price 100.25, 95 below its liquidation price 38000/398
\* and 96 above it
ScenarioPrices == {95, 96, 100, 101}

\* the series of the scenario: entered at 100, one bar a minute
ScenarioSeries ==
    UNION { { [k \in 1..(n + 1) |->
                 [time |-> k - 1, price |-> IF k = 1 THEN 100 ELSE ps[k - 1]]] :
              ps \in [1..n -> ScenarioPrices] } : n \in 0..(MaxLen - 1) }

\* qty and liq_price of a position without ladder (단순화.py, 39 and 49;
\* 연속매매.py, 46, 61 and 66), tabulated once for each entry price
TradeTable ==
    { <<e, [qty |-> q,
            liq_long |-> LiqLong(Rat(e, 1), q, INIT_M, MMR),
            liq_short |-> LiqShort(Rat(e, 1), q, INIT_M, MMR)]>> :
      <<e, q>> \in { <<e0, RDiv(Rat(INIT_M * LEVERAGE, 1), Rat(e0, 1))>> :
                     e0 \in Prices \cup ScenarioPrices } }

TradeOf(e) == (CHOOSE r \in TradeTable : r[1] = e)[2]

\* drop = (past - price) / past of compute_signals (연속매매.py, line 28),
\* tabulated once for each pair of prices
DropTable ==
    { <<past, price, RDiv(RSub(Rat(past, 1), Rat(price, 1)), Rat(past, 1))>> :
      past \in Prices, price \in Prices }

DropOf(past, price) == (CHOOSE r \in DropTable : r[1] = past /\ r[2] = price)[3]

\* the lookback -> threshold mappings of the model, as the (lookback,
\* threshold) pairs of dict.items() in order; lookbacks are distinct
Lookbacks == {1, 2}
DropThresholds == {Rat(1, 100), Rat(4, 100)}
Thresholds ==
    {<< >>}
    \cup { <<<<tf, th>>>> : tf \in Lookbacks, th \in DropThresholds }
    \cup { <<<<tf1, th1>>, <<tf2, th2>>>> :
           <<tf1, tf2>> \in {p \in Lookbacks \X Lookbacks : p[1] # p[2]},
           <<th1, th2>> \in DropThresholds \X DropThresholds }

\* the mappings the chained driver is run with
ReversalThresholds == { <<<<1, Rat(1, 100)>>>> }

VARIABLES
    fn,          \* the function being executed
    pc,          \* its position: "for", "while", "return"
    df,          \* the price series, rows (time, price)
    start,       \* simulate, simulate_no_scale: the start index
    i,           \* simulate, simulate_no_scale: the loop variable
    pos,         \* simulate: the ladder step
    tp_price,    \* the active take-profit price
    waters,      \* simulate: the timestamps of the ladder advances
    ret,         \* simulate, simulate_no_scale: the returned dict
    thresholds,  \* compute_signals: the lookback -> threshold mapping
    tfi,         \* compute_signals: the number of items processed
    signals,     \* the boolean series aligned to df
    start_time,  \* run_reversal_backtest: the configured start time
    direction,   \* run_reversal_backtest: "long" or "short"
    idx,         \* run_reversal_backtest: the entry index
    offset,      \* run_reversal_backtest: the inner loop variable
    hold,        \* run_reversal_backtest: the bars held so far
    trades,      \* run_reversal_backtest: the recorded trades
    plan_entry,  \* make_plan: the argument entry
    plan_drops,  \* make_plan: the list DROPS in force
    plan_locals, \* make_plan: the locals plan, m, n, q, avg
    price_df,    \* backtest, backtest_no_scale: the series of all months
    month,       \* backtest, backtest_no_scale: the month selector
    records,     \* backtest, backtest_no_scale: the list of records
    files,       \* backtest, backtest_no_scale: the files written
    csv,         \* load_converted: the file read
    sim_drops    \* simulate.py: the drop fractions the module is run with

vars == <<fn, pc, df, start, i, pos, tp_price, waters, ret, thresholds, tfi,
          signals, start_time, direction, idx, offset, hold, trades,
          plan_entry, plan_drops, plan_locals, price_df, month, records, files, csv, sim_drops>>

simvars == <<start, i, pos, waters, ret>>
sigvars == <<thresholds, tfi, signals>>
revvars == <<start_time, direction, idx, offset, hold, trades>>
planvars == <<plan_entry, plan_drops, plan_locals>>

\* the variables of the functions that are modelled on their own
btvars == <<price_df, month, records, files>>
callvars == <<planvars, btvars, csv, sim_drops>>

\* element k of a sequence, with Python's indexing: from 0, and from the
\* end for a negative k
At(seq, k) == IF k < 0 THEN seq[Len(seq) + k + 1] ELSE seq[k + 1]

PriceAt(k) == At(df, k).price
TimeAt(k) == At(df, k).time

\* the value of ret while the function has not returned
NoRet == [res |-> "NONE"]

\* the variables a function does not use
NoSim == start = 0 /\ i = 0 /\ pos = 0 /\ waters = << >> /\ ret = NoRet
NoSig == thresholds = << >> /\ tfi = 0 /\ signals = << >>
NoRev ==
    /\ start_time = 0 /\ direction = "long" /\ idx = 0 /\ offset = 0
    /\ hold = 0 /\ trades = << >>
NoPlan ==
    /\ plan_entry = 0 /\ plan_drops = << >>
    /\ plan_locals = [plan |-> << >>, m |-> 0, n |-> 0, q |-> Zero, avg |-> Zero]
NoBacktest == price_df = << >> /\ month = 0 /\ records = << >> /\ files = << >>
NoCall == NoPlan /\ NoBacktest /\ csv = << >> /\ sim_drops = DROPS

(***************************************************************************)
(* simulate (simulate.py): one pass of the loop over the bars after start. *)
(***************************************************************************)
\* the while loop of lines 71-74: the step reached from p at this price
\* Advance with one step at most taken at a bar: a faulty variant
AdvanceOnce(plan, p, price) ==
    IF p < Len(plan) - 1 /\ RLe(price, plan[p + 2].trigger) THEN p + 1 ELSE p

RECURSIVE Advance(_, _, _)
Advance(plan, p, price) ==
    IF p < Len(plan) - 1 /\ RLe(price, plan[p + 2].trigger)
      THEN Advance(plan, p + 1, price)
      ELSE p

RECURSIVE Repeat(_, _)
Repeat(x, n) == IF n = 0 THEN << >> ELSE <<x>> \o Repeat(x, n - 1)

\* simulate_bar with the take-profit price to be exceeded, not just
\* reached: a faulty variant
simulate_bar_above(entry, p, tp, w, k) ==
    CHOOSE b \in
      { IF RCmp(price, tp) > 0
          THEN [res |-> "TP", pos |-> p, tp_price |-> tp, waters |-> w]
        ELSE IF RLe(price, LiqOf(entry)[np + 1])
          THEN [res |-> "LIQ", pos |-> np, tp_price |-> plan[np + 1].tp,
                waters |-> w \o Repeat(TimeAt(k), np - p)]
        ELSE [res |-> "NONE", pos |-> np, tp_price |-> plan[np + 1].tp,
              waters |-> w \o Repeat(TimeAt(k), np - p)] :
        <<price, plan, np>> \in
          { <<pr, pl, Advance(pl, p, pr)>> :
            pr \in {Rat(PriceAt(k), 1)}, pl \in {PlanOf(entry)} } } : TRUE

\* simulate_bar with the liquidation price of the step the bar began at: a
\* faulty variant
simulate_bar_stale(entry, p, tp, w, k) ==
    CHOOSE b \in
      { IF RGe(price, tp)
          THEN [res |-> "TP", pos |-> p, tp_price |-> tp, waters |-> w]
        ELSE IF RLe(price, LiqOf(entry)[p + 1])
          THEN [res |-> "LIQ", pos |-> np, tp_price |-> plan[np + 1].tp,
                waters |-> w \o Repeat(TimeAt(k), np - p)]
        ELSE [res |-> "NONE", pos |-> np, tp_price |-> plan[np + 1].tp,
              waters |-> w \o Repeat(TimeAt(k), np - p)] :
        <<price, plan, np>> \in
          { <<pr, pl, Advance(pl, p, pr)>> :
            pr \in {Rat(PriceAt(k), 1)}, pl \in {PlanOf(entry)} } } : TRUE

\* make_plan(entry) with the drop fractions the module is run with, and the
\* liquidation price of lines 76-79 at its step p
PlanIn(e) ==
    IF sim_drops = DROPS THEN PlanOf(e)
    ELSE PlanLoop([plan |-> <<PlanOf(e)[1]>>, m |-> INIT_M, n |-> INIT_M * LEVERAGE,
                   q |-> PlanOf(e)[1].qty, avg |-> Rat(e, 1)],
                  sim_drops, RDiv(ROI_NET, Rat(LEVERAGE, 1)))

LiqIn(e, p) ==
    IF sim_drops = DROPS THEN LiqOf(e)[p + 1]
    ELSE CHOOSE r \in { LiqLong(st.avg, st.qty, st.margin, MMR) :
                        st \in {PlanIn(e)[p + 1]} } : TRUE

\* the body of the for loop, lines 65-81, for the bar at position k; res is
\* "NONE" when the loop goes on to the next bar
simulate_bar(entry, p, tp, w, k) ==
    CHOOSE b \in
      { IF RGe(price, tp)
          THEN [res |-> "TP", pos |-> p, tp_price |-> tp, waters |-> w]
        ELSE IF RLe(price, LiqIn(entry, np))
          THEN [res |-> "LIQ", pos |-> np, tp_price |-> plan[np + 1].tp,
                waters |-> w \o Repeat(TimeAt(k), np - p)]
        ELSE [res |-> "NONE", pos |-> np, tp_price |-> plan[np + 1].tp,
              waters |-> w \o Repeat(TimeAt(k), np - p)] :
        <<price, plan, np>> \in
          { <<pr, pl, Advance(pl, p, pr)>> :
            pr \in {Rat(PriceAt(k), 1)}, pl \in {PlanIn(entry)} } } : TRUE

SimulateBar ==
    /\ fn \in {"simulate", "backtest"}
    /\ pc = "for"
    /\ i < Len(df)
    /\ \E b \in {simulate_bar(PriceAt(start), pos, tp_price, waters, i)} :
           /\ pos' = b.pos
           /\ tp_price' = b.tp_price
           /\ waters' = b.waters
           /\ IF b.res = "NONE"
                THEN i' = i + 1 /\ UNCHANGED <<pc, ret>>
                ELSE /\ pc' = "return"
                     /\ ret' = [res |-> b.res, hold |-> i - start,
                                exit |-> TimeAt(i), waters |-> b.waters]
                     /\ i' = i
    /\ UNCHANGED <<callvars, fn, df, start, sigvars, revvars>>

\* SimulateOpen with the bars counted from the entry bar on: a faulty
\* variant, which a statement about the hold of an OPEN result must reject
SimulateOpenFromEntry ==
    /\ fn \in {"simulate", "backtest"}
    /\ pc = "for"
    /\ i >= Len(df)
    /\ pc' = "return"
    /\ ret' = [res |-> "OPEN", hold |-> Len(df) - start - 2, exit |-> None,
               waters |-> waters]
    /\ UNCHANGED <<callvars, fn, df, start, i, pos, tp_price, waters, sigvars, revvars>>

\* line 83: the loop ran out of bars
SimulateOpen ==
    /\ fn \in {"simulate", "backtest"}
    /\ pc = "for"
    /\ i >= Len(df)
    /\ pc' = "return"
    /\ ret' = [res |-> "OPEN", hold |-> Len(df) - start - 1, exit |-> None,
               waters |-> waters]
    /\ UNCHANGED <<callvars, fn, df, start, i, pos, tp_price, waters, sigvars, revvars>>

\* simulate(df, start) for a start index of df, lines 59-63
InitSimulate ==
    /\ fn = "simulate"
    /\ pc = "for"
    /\ df \in Series
    /\ start \in 0..(Len(df) - 1)
    /\ i = start + 1
    /\ pos = 0
    /\ tp_price = PlanOf(PriceAt(start))[1].tp
    /\ waters = << >>
    /\ ret = NoRet
    /\ NoSig /\ NoRev /\ NoCall

(***************************************************************************)
(* simulate_no_scale (단순화.py): a single step, no ladder.                 *)
(***************************************************************************)
\* TpLong with the target not divided by the leverage: a faulty variant
TpLongUnlevered(entry, roi_net, leverage) == RMul(entry, RAdd(One, roi_net))

\* the take-profit price of an entry, lines 36-37
TpLong(entry, roi_net, leverage) ==
    RMul(entry, RAdd(One, RDiv(roi_net, Rat(leverage, 1))))

\* the body of the for loop, lines 43-51
no_scale_bar(entry, tp, k) ==
    CHOOSE b \in
      { IF RGe(price, tp) THEN "TP"
        ELSE IF RLe(price, TradeOf(entry).liq_long) THEN "LIQ"
        ELSE "NONE" :
        price \in {Rat(PriceAt(k), 1)} } : TRUE

NoScaleBar ==
    /\ fn \in {"simulate_no_scale", "backtest_no_scale"}
    /\ pc = "for"
    /\ i < Len(df)
    /\ \E b \in {no_scale_bar(PriceAt(start), tp_price, i)} :
           IF b = "NONE"
             THEN i' = i + 1 /\ UNCHANGED <<pc, ret>>
             ELSE /\ pc' = "return"
                  /\ ret' = [res |-> b, hold |-> i - start, exit |-> TimeAt(i)]
                  /\ i' = i
    /\ UNCHANGED <<callvars, fn, df, start, pos, tp_price, waters, sigvars, revvars>>

\* NoScaleOpen with the entry bar counted among the bars held: a faulty
\* variant
NoScaleOpenWithEntry ==
    /\ fn \in {"simulate_no_scale", "backtest_no_scale"}
    /\ pc = "for"
    /\ i >= Len(df)
    /\ pc' = "return"
    /\ ret' = [res |-> "OPEN", hold |-> Len(df) - start, exit |-> None]
    /\ UNCHANGED <<callvars, fn, df, start, i, pos, tp_price, waters, sigvars, revvars>>

\* line 53
NoScaleOpen ==
    /\ fn \in {"simulate_no_scale", "backtest_no_scale"}
    /\ pc = "for"
    /\ i >= Len(df)
    /\ pc' = "return"
    /\ ret' = [res |-> "OPEN", hold |-> Len(df) - start - 1, exit |-> None]
    /\ UNCHANGED <<callvars, fn, df, start, i, pos, tp_price, waters, sigvars, revvars>>

InitNoScale ==
    /\ fn = "simulate_no_scale"
    /\ pc = "for"
    /\ df \in Series
    /\ start \in 0..(Len(df) - 1)
    /\ i = start + 1
    /\ pos = 0
    /\ tp_price = TpLong(Rat(PriceAt(start), 1), ROI_NET, LEVERAGE)
    /\ waters = << >>
    /\ ret = NoRet
    /\ NoSig /\ NoRev /\ NoCall

\* simulate_no_scale(df, 0) on a series of the single-step scenario
InitScenario ==
    /\ fn = "simulate_no_scale"
    /\ pc = "for"
    /\ df \in ScenarioSeries
    /\ start = 0
    /\ i = start + 1
    /\ pos = 0
    /\ tp_price = TpLong(Rat(PriceAt(start), 1), ROI_NET, LEVERAGE)
    /\ waters = << >>
    /\ ret = NoRet
    /\ NoSig /\ NoRev /\ NoCall

(***************************************************************************)
(* compute_signals (연속매매.py, 변동성계산.py).                              *)
(***************************************************************************)
\* signal_pass with the threshold to be exceeded, not just met: a faulty
\* variant
signal_pass_above(sig, d, tf, th) ==
    [t \in 1..Len(d) |->
       [time |-> sig[t].time,
        signal |-> sig[t].signal
                   \/ ( /\ t - tf >= 1
                        /\ RCmp(DropOf(d[t - tf].price, d[t].price), th) > 0 )]]

\* signal_pass with the comparison turned round, a rise marked in place of
\* a drop: a faulty variant
signal_pass_rise(sig, d, tf, th) ==
    [t \in 1..Len(d) |->
       [time |-> sig[t].time,
        signal |-> sig[t].signal
                   \/ ( /\ t - tf >= 1
                        /\ RLe(DropOf(d[t - tf].price, d[t].price), th) )]]

\* one pass of the loop over thresholds.items(), lines 27-29: shift(tf) has
\* no value for the first tf rows, and a comparison with no value is False
signal_pass(sig, d, tf, th) ==
    [t \in 1..Len(d) |->
       [time |-> sig[t].time,
        signal |-> sig[t].signal
                   \/ ( /\ t - tf >= 1
                        /\ RGe(DropOf(d[t - tf].price, d[t].price), th) )]]

\* line 26: pd.Series(False, index=df.index)
NoSignals(d) == [t \in 1..Len(d) |-> [time |-> d[t].time, signal |-> FALSE]]

RECURSIVE SignalLoop(_, _, _)
SignalLoop(sig, d, items) ==
    IF items = << >> THEN sig
    ELSE CHOOSE r \in
           { SignalLoop(nx, d, Tail(items)) :
             nx \in {SubSeq(signal_pass(sig, d, items[1][1], items[1][2]),
                            1, Len(d))} } : TRUE

compute_signals(d, th) == SignalLoop(NoSignals(d), d, th)

SignalPass ==
    /\ fn = "compute_signals"
    /\ pc = "for"
    /\ tfi < Len(thresholds)
    /\ signals' = signal_pass(signals, df, thresholds[tfi + 1][1], thresholds[tfi + 1][2])
    /\ tfi' = tfi + 1
    /\ UNCHANGED <<callvars, fn, pc, df, tp_price, thresholds, simvars, revvars>>

SignalReturn ==
    /\ fn = "compute_signals"
    /\ pc = "for"
    /\ tfi >= Len(thresholds)
    /\ pc' = "return"
    /\ UNCHANGED <<callvars, fn, df, tp_price, sigvars, simvars, revvars>>

InitSignals ==
    /\ fn = "compute_signals"
    /\ pc = "for"
    /\ df \in Series
    /\ thresholds \in Thresholds
    /\ tfi = 0
    /\ signals = NoSignals(df)
    /\ tp_price = One
    /\ NoSim /\ NoRev /\ NoCall

(***************************************************************************)
(* run_reversal_backtest (연속매매.py): the chained driver.                  *)
(***************************************************************************)
\* index.get_indexer([t], method='bfill')[0] on an increasing index: the
\* position of the first label at or after t, -1 when there is none
get_indexer(index, t) ==
    IF \E k \in 1..Len(index) : index[k] >= t
      THEN (CHOOSE k \in 1..Len(index) :
              index[k] >= t /\ \A j \in 1..(k - 1) : index[j] < t) - 1
      ELSE -1

IndexOf(d) == [k \in 1..Len(d) |-> d[k].time]

\* tp_price of a trade, line 44
TpOf(dir, entry, roi_net, leverage) ==
    IF dir = "long" THEN TpLong(entry, roi_net, leverage)
    ELSE RMul(entry, RSub(One, RDiv(roi_net, Rat(leverage, 1))))

\* the body of the inner for loop, lines 51-68
reversal_bar(dir, entry, tp, k) ==
    CHOOSE b \in
      { IF dir = "long" /\ RGe(price, tp) THEN "TP"
        ELSE IF dir = "short" /\ RLe(price, tp) THEN "TP"
        ELSE IF dir = "long"
          THEN (IF RLe(price, TradeOf(entry).liq_long) THEN "LIQ" ELSE "NONE")
        ELSE (IF RGe(price, TradeOf(entry).liq_short) THEN "LIQ" ELSE "NONE") :
        price \in {Rat(PriceAt(k), 1)} } : TRUE

\* Flip that keeps the direction: a faulty variant
KeepDirection(dir) == dir

Flip(dir) == IF dir = "long" THEN "short" ELSE "long"

\* lines 40-48: the while condition holds, a trade is entered at idx
ReversalEnter ==
    /\ fn = "run_reversal_backtest"
    /\ pc = "while"
    /\ idx < Len(df) - 1
    /\ tp_price' = TpOf(direction, Rat(PriceAt(idx), 1), ROI_NET, LEVERAGE)
    /\ hold' = 0
    /\ offset' = idx + 1
    /\ pc' = "for"
    /\ UNCHANGED <<callvars, fn, df, simvars, sigvars, start_time, direction, idx, trades>>

\* line 40: the while condition fails; line 87
ReversalReturn ==
    /\ fn = "run_reversal_backtest"
    /\ pc = "while"
    /\ ~(idx < Len(df) - 1)
    /\ pc' = "return"
    /\ UNCHANGED <<callvars, fn, df, tp_price, simvars, sigvars, revvars>>

\* lines 51-68 for the bar at offset; on TP or LIQ the loop is left, the
\* trade recorded and the next entry looked up, lines 70-86
ReversalBar ==
    /\ fn = "run_reversal_backtest"
    /\ pc = "for"
    /\ offset < Len(df)
    /\ hold' = offset - idx
    /\ \E b \in {reversal_bar(direction, PriceAt(idx), tp_price, offset)} :
           IF b = "NONE"
             THEN offset' = offset + 1 /\ UNCHANGED <<pc, direction, idx, trades>>
             ELSE /\ trades' = Append(trades,
                        [Entry_Time |-> TimeAt(idx), Entry_Price |-> PriceAt(idx),
                         Direction |-> direction, Result |-> b,
                         Hold_Min |-> offset - idx,
                         Exit_Time |-> TimeAt(offset), Exit_Price |-> PriceAt(offset)])
                  /\ direction' = Flip(direction)
                  /\ idx' = get_indexer(IndexOf(signals), TimeAt(offset))
                  /\ pc' = "while"
                  /\ offset' = offset
    /\ UNCHANGED <<callvars, fn, df, tp_price, simvars, sigvars, start_time>>

\* ReversalOpen without the break of line 83, the chain going on from the
\* same entry: a faulty variant
ReversalOpenGoesOn ==
    /\ fn = "run_reversal_backtest"
    /\ pc = "for"
    /\ offset >= Len(df)
    /\ trades' = Append(trades,
          [Entry_Time |-> TimeAt(idx), Entry_Price |-> PriceAt(idx),
           Direction |-> direction, Result |-> "OPEN", Hold_Min |-> hold,
           Exit_Time |-> None, Exit_Price |-> None])
    /\ direction' = Flip(direction)
    /\ pc' = "while"
    /\ UNCHANGED <<callvars, fn, df, tp_price, simvars, sigvars, start_time, idx, offset, hold>>

\* the inner loop ran out of bars: the trade is recorded OPEN, lines 70-83
ReversalOpen ==
    /\ fn = "run_reversal_backtest"
    /\ pc = "for"
    /\ offset >= Len(df)
    /\ trades' = Append(trades,
          [Entry_Time |-> TimeAt(idx), Entry_Price |-> PriceAt(idx),
           Direction |-> direction, Result |-> "OPEN", Hold_Min |-> hold,
           Exit_Time |-> None, Exit_Price |-> None])
    /\ direction' = Flip(direction)
    /\ pc' = "return"
    /\ UNCHANGED <<callvars, fn, df, tp_price, simvars, sigvars, start_time, idx, offset, hold>>

\* backtest, lines 95-98, and run_reversal_backtest, lines 36-39
InitReversal ==
    /\ fn = "run_reversal_backtest"
    /\ pc = "while"
    /\ df \in Series
    /\ thresholds \in ReversalThresholds
    /\ tfi = Len(thresholds)
    /\ signals = compute_signals(df, thresholds)
    /\ start_time \in 0..(MaxTime + 1)
    /\ direction = "long"
    /\ idx = get_indexer(IndexOf(df), start_time)
    /\ offset = 0
    /\ hold = 0
    /\ trades = << >>
    /\ tp_price = One
    /\ NoSim /\ NoCall

(***************************************************************************)
(* make_plan (simulate.py) on its own, for an entry price and a list DROPS *)
(* of the configuration: one pass of the loop over DROPS per step.         *)
(***************************************************************************)
MaxDrops == 3
DropFractions == {Rat(1, 100), Rat(2, 100), Rat(4, 100)}
DropLists == {DROPS} \cup UNION { [1..k -> DropFractions] : k \in 0..MaxDrops }

\* the entry prices make_plan is given: the prices of the series, and a
\* negative one
PlanEntries == Prices \cup {-400}

\* t of line 41
TargetT == RDiv(ROI_NET, Rat(LEVERAGE, 1))

\* lines 48-54: one pass of the loop over DROPS
PlanPass ==
    /\ fn = "make_plan"
    /\ pc = "for"
    /\ Len(plan_locals.plan) - 1 < Len(plan_drops)
    /\ plan_locals' = PlanAdd(plan_locals.plan, plan_drops[Len(plan_locals.plan)],
                              TargetT, plan_locals.m, plan_locals.n,
                              plan_locals.q, plan_locals.avg)
    /\ UNCHANGED <<fn, pc, df, tp_price, simvars, sigvars, revvars,
                   plan_entry, plan_drops, btvars, csv, sim_drops>>

\* line 55
PlanReturn ==
    /\ fn = "make_plan"
    /\ pc = "for"
    /\ Len(plan_locals.plan) - 1 >= Len(plan_drops)
    /\ pc' = "return"
    /\ UNCHANGED <<fn, df, tp_price, simvars, sigvars, revvars, planvars, btvars, csv, sim_drops>>

\* make_plan(entry), lines 40-47
InitPlan ==
    /\ fn = "make_plan"
    /\ pc = "for"
    /\ plan_entry \in PlanEntries
    /\ plan_drops \in DropLists
    /\ plan_locals =
         [plan |-> <<PlanStep(0, Rat(plan_entry, 1), Rat(plan_entry, 1), TargetT, INIT_M,
                              RDiv(Rat(INIT_M * LEVERAGE, 1), Rat(plan_entry, 1)))>>,
          m |-> INIT_M, n |-> INIT_M * LEVERAGE,
          q |-> RDiv(Rat(INIT_M * LEVERAGE, 1), Rat(plan_entry, 1)),
          avg |-> Rat(plan_entry, 1)]
    /\ df = << >>
    /\ tp_price = One
    /\ NoSim /\ NoSig /\ NoRev /\ NoBacktest /\ csv = << >> /\ sim_drops = DROPS

(***************************************************************************)
(* backtest (simulate.py) and backtest_no_scale (단순화.py): one simulation *)
(* from every row of the month, then the result files.  The simulation of  *)
(* a row is the run of SimulateBar and SimulateOpen (NoScaleBar and        *)
(* NoScaleOpen) on the rows of the month, from the call to its return.     *)
(***************************************************************************)
\* df['time'].dt.strftime('%Y-%m'): a month is MaxTime units of time long,
\* the last timestamp of the model is in the month after the others
MonthOf(t) == t \div MaxTime

\* the month selectors: every month of the series and the month after them
Months == 0..(MonthOf(MaxTime) + 1)

\* df[df['time'].dt.strftime('%Y-%m') == month].reset_index(drop=True)
MonthRows(d, mo) ==
    CHOOSE r \in { SubSeq(v, 1, Len(v)) :
                   v \in {SelectSeq(d, LAMBDA x : MonthOf(x.time) = mo)} } : TRUE

\* the hundredths nearest to x, for 0 <= x < hi / 100, found by bisection
RECURSIVE Cents(_, _, _)
Cents(x, lo, hi) ==
    IF lo >= hi THEN lo
    ELSE CHOOSE r \in
           { IF RGe(x, Rat(2 * z - 1, 200)) THEN Cents(x, z, hi)
             ELSE Cents(x, lo, z - 1) :
             z \in {(lo + hi + 1) \div 2} } : TRUE

\* round(profit, 2); the profit is at most the margin committed
Round2(x) == Rat(Cents(x, 0, 100 * (INIT_M + Len(DROPS) * ADD_M)), 100)

\* the profit of lines 94-97
Profit(entry, res, water_cnt) ==
    IF res = "TP"
      THEN CHOOSE r \in
             { RMul(st.qty, RSub(st.tp, st.avg)) :
               st \in {PlanOf(entry)[water_cnt + 1]} } : TRUE
      ELSE Zero

\* the record of lines 98-109; Water[j] is the column Water<j>
LadderRecord(ts, entry, sim) ==
    [Entry_Time |-> ts, Entry_Price |-> entry, Result |-> sim.res,
     Hold_Min |-> sim.hold, Exit_Time |-> sim.exit,
     WaterCnt |-> Len(sim.waters),
     Profit |-> Round2(Profit(entry, sim.res, Len(sim.waters))),
     Water |-> [j \in 1..Len(DROPS) |->
                  IF j <= Len(sim.waters) THEN sim.waters[j] ELSE None]]

\* the record of 단순화.py, lines 62-68
NoScaleRecord(ts, entry, sim) ==
    [Entry_Time |-> ts, Entry_Price |-> entry, Result |-> sim.res,
     Hold_Min |-> sim.hold, Exit_Time |-> sim.exit]

\* the four files of lines 117-120
ResultFiles(recs) ==
    [main |-> SelectSeq(recs, LAMBDA x : x.Result # "OPEN"),
     liq  |-> SelectSeq(recs, LAMBDA x : x.Result = "LIQ"),
     tp   |-> SelectSeq(recs, LAMBDA x : x.Result = "TP"),
     open |-> SelectSeq(recs, LAMBDA x : x.Result = "OPEN")]

\* BacktestCall with the ladder of the simulation before left as it was: a
\* faulty variant, in which a record depends on the rows before its own
BacktestCallCarry ==
    /\ fn = "backtest"
    /\ pc = "loop"
    /\ idx < Len(df)
    /\ pc' = "for"
    /\ start' = idx
    /\ i' = idx + 1
    /\ tp_price' = PlanOf(PriceAt(idx))[pos + 1].tp
    /\ ret' = NoRet
    /\ UNCHANGED <<fn, df, pos, waters, sigvars, revvars, planvars, btvars, csv, sim_drops>>

\* line 90: sim = simulate(mdf, idx)
BacktestCall ==
    /\ fn = "backtest"
    /\ pc = "loop"
    /\ idx < Len(df)
    /\ pc' = "for"
    /\ start' = idx
    /\ i' = idx + 1
    /\ pos' = 0
    /\ tp_price' = PlanOf(PriceAt(idx))[1].tp
    /\ waters' = << >>
    /\ ret' = NoRet
    /\ UNCHANGED <<fn, df, sigvars, revvars, planvars, btvars, csv, sim_drops>>

\* lines 91-110, after simulate returned
BacktestRecord ==
    /\ fn = "backtest"
    /\ pc = "return"
    /\ records' = Append(records, LadderRecord(TimeAt(idx), PriceAt(idx), ret))
    /\ idx' = idx + 1
    /\ pc' = "loop"
    /\ UNCHANGED <<fn, df, tp_price, simvars, sigvars, planvars, price_df, month, files, csv, sim_drops,
                   start_time, direction, offset, hold, trades>>

\* lines 114-149: pd.DataFrame(records) has the columns of its records, and
\* none when there are no records; df_res['Result'] then raises KeyError
BacktestSave ==
    /\ fn \in {"backtest", "backtest_no_scale"}
    /\ pc = "loop"
    /\ idx >= Len(df)
    /\ IF records = << >>
         THEN pc' = "KeyError" /\ UNCHANGED files
         ELSE pc' = "done" /\ files' = ResultFiles(records)
    /\ UNCHANGED <<fn, df, tp_price, simvars, sigvars, revvars, planvars,
                   price_df, month, records, csv, sim_drops>>

\* 단순화.py, line 61: sim = simulate_no_scale(mdf, idx)
NoScaleBacktestCall ==
    /\ fn = "backtest_no_scale"
    /\ pc = "loop"
    /\ idx < Len(df)
    /\ pc' = "for"
    /\ start' = idx
    /\ i' = idx + 1
    /\ tp_price' = TpLong(Rat(PriceAt(idx), 1), ROI_NET, LEVERAGE)
    /\ ret' = NoRet
    /\ UNCHANGED <<fn, df, pos, waters, sigvars, revvars, planvars, btvars, csv, sim_drops>>

\* 단순화.py, lines 62-69
NoScaleBacktestRecord ==
    /\ fn = "backtest_no_scale"
    /\ pc = "return"
    /\ records' = Append(records, NoScaleRecord(TimeAt(idx), PriceAt(idx), ret))
    /\ idx' = idx + 1
    /\ pc' = "loop"
    /\ UNCHANGED <<fn, df, tp_price, simvars, sigvars, planvars, price_df, month, files, csv, sim_drops,
                   start_time, direction, offset, hold, trades>>

\* backtest(df, month, out_base) and backtest_no_scale(df, month, out_base),
\* after the rows of the month are selected (line 87)
InitBacktest ==
    /\ fn \in {"backtest", "backtest_no_scale"}
    /\ pc = "loop"
    /\ price_df \in Series
    /\ month \in Months
    /\ df = MonthRows(price_df, month)
    /\ records = << >>
    /\ files = << >>
    /\ tp_price = One
    /\ NoSim /\ NoSig /\ NoRev /\ NoPlan /\ csv = << >> /\ sim_drops = DROPS

(***************************************************************************)
(* load_converted (simulate.py, 단순화.py, 연속매매.py, 변동성계산.py): the  *)
(* rows of the file, in the order of the file.  A date is the instant it   *)
(* is parsed to; a close is a text.                                        *)
(***************************************************************************)
MaxRows == 3

\* the value of a price that could not be parsed
NaN == -2

\* the texts of the close column
Closes == {"372", "400", "n/a"}

\* pd.to_numeric(x, errors='coerce')
ToNumeric(x) ==
    CASE x = "372" -> 372
      [] x = "400" -> 400
      [] OTHER -> NaN

\* the files: the names of the columns, and rows of a date and a second value
CsvFiles ==
    { [columns |-> c, rows |-> r] :
      c \in {<<"date", "close">>, <<"date", "open">>},
      r \in UNION { [1..n -> [date : 0..(MaxRows - 1), close : Closes]] : n \in 0..MaxRows } }

\* lines 31-35: the check of the columns and the two columns time and price
LoadRead ==
    /\ fn = "load_converted"
    /\ pc = "read_csv"
    /\ IF \E k \in 1..Len(csv.columns) : csv.columns[k] = "close"
         THEN /\ pc' = "dropna"
              /\ df' = [k \in 1..Len(csv.rows) |->
                          [time |-> csv.rows[k].date,
                           price |-> ToNumeric(csv.rows[k].close)]]
         ELSE /\ pc' = "ValueError"
              /\ UNCHANGED df
    /\ UNCHANGED <<fn, tp_price, simvars, sigvars, revvars, callvars>>

\* line 36: dropna and reset_index(drop=True), or set_index('time')
LoadReturn ==
    /\ fn = "load_converted"
    /\ pc = "dropna"
    /\ df' = SelectSeq(df, LAMBDA x : x.price # NaN)
    /\ pc' = "return"
    /\ UNCHANGED <<fn, tp_price, simvars, sigvars, revvars, callvars>>

InitLoad ==
    /\ fn = "load_converted"
    /\ pc = "read_csv"
    /\ csv \in CsvFiles
    /\ df = << >>
    /\ tp_price = One
    /\ NoSim /\ NoSig /\ NoRev /\ NoPlan /\ NoBacktest /\ sim_drops = DROPS

(***************************************************************************)
(* simulate_no_scale of 변동성계산.py: one single-step scan from every row  *)
(* with a signal; ret holds the locals res, hold, exit_time.               *)
(***************************************************************************)
\* line 45: idxs = [i for i, sig in enumerate(signals) if sig]
SignalIdxs(sig) ==
    SelectSeq([k \in 1..Len(sig) |-> k - 1], LAMBDA x : sig[x + 1].signal)

\* lines 46-52: the next start, its entry and take-profit price
SignalScanEnter ==
    /\ fn = "signal_simulate_no_scale"
    /\ pc = "loop"
    /\ idx < Len(SignalIdxs(signals))
    /\ start' = SignalIdxs(signals)[idx + 1]
    /\ i' = start' + 1
    /\ tp_price' = TpLong(Rat(PriceAt(start'), 1), ROI_NET, LEVERAGE)
    /\ ret' = [res |-> "OPEN", hold |-> None, exit |-> None]
    /\ pc' = "for"
    /\ UNCHANGED <<callvars, fn, df, pos, waters, sigvars, revvars>>

\* lines 53-62: one pass of the inner loop
SignalScanBar ==
    /\ fn = "signal_simulate_no_scale"
    /\ pc = "for"
    /\ i < Len(df)
    /\ \E price \in {Rat(PriceAt(i), 1)} :
         IF RGe(price, tp_price)
           THEN /\ ret' = [res |-> "TP", hold |-> i - start, exit |-> TimeAt(i)]
                /\ pc' = "record"
                /\ i' = i
         ELSE IF RLe(price, LiqLong(Rat(PriceAt(start), 1), TradeOf(PriceAt(start)).qty,
                                    INIT_M, MMR))
           THEN /\ ret' = [res |-> "LIQ", hold |-> i - start, exit |-> TimeAt(i)]
                /\ pc' = "record"
                /\ i' = i
         ELSE i' = i + 1 /\ UNCHANGED <<pc, ret>>
    /\ UNCHANGED <<callvars, fn, df, start, pos, tp_price, waters, sigvars, revvars>>

\* SignalScanRecord without lines 63-64, the hold of an OPEN position left
\* as it was set at line 52: a faulty variant
SignalScanRecordNoHold ==
    /\ fn = "signal_simulate_no_scale"
    /\ pc = "record" \/ (pc = "for" /\ i >= Len(df))
    /\ records' = Append(records, NoScaleRecord(TimeAt(start), PriceAt(start), ret))
    /\ idx' = idx + 1
    /\ pc' = "loop"
    /\ UNCHANGED <<fn, df, tp_price, simvars, sigvars, planvars, price_df, month, files,
                   csv, sim_drops, start_time, direction, offset, hold, trades>>

\* lines 63-71, after the inner loop broke or ran out of rows
SignalScanRecord ==
    /\ fn = "signal_simulate_no_scale"
    /\ pc = "record" \/ (pc = "for" /\ i >= Len(df))
    /\ records' = Append(records,
          NoScaleRecord(TimeAt(start), PriceAt(start),
                        IF ret.res = "OPEN"
                          THEN [ret EXCEPT !.hold = Len(df) - start - 1]
                          ELSE ret))
    /\ idx' = idx + 1
    /\ pc' = "loop"
    /\ UNCHANGED <<fn, df, tp_price, simvars, sigvars, planvars, price_df, month, files,
                   csv, sim_drops, start_time, direction, offset, hold, trades>>

\* line 72
SignalScanReturn ==
    /\ fn = "signal_simulate_no_scale"
    /\ pc = "loop"
    /\ idx >= Len(SignalIdxs(signals))
    /\ pc' = "return"
    /\ UNCHANGED <<callvars, fn, df, tp_price, simvars, sigvars, revvars>>

\* simulate_no_scale(df, signals, ...) with the signals of compute_signals
InitSignalScan ==
    /\ fn = "signal_simulate_no_scale"
    /\ pc = "loop"
    /\ df \in Series
    /\ thresholds \in ReversalThresholds
    /\ tfi = Len(thresholds)
    /\ signals = compute_signals(df, thresholds)
    /\ tp_price = One
    /\ NoSim /\ NoRev /\ NoCall

\* simulate(df, start) of simulate.py with DROPS = []
InitSimulateNoDrops ==
    /\ fn = "simulate"
    /\ pc = "for"
    /\ df \in Series
    /\ start \in 0..(Len(df) - 1)
    /\ sim_drops = << >>
    /\ i = start + 1
    /\ pos = 0
    /\ tp_price = PlanIn(PriceAt(start))[1].tp
    /\ waters = << >>
    /\ ret = NoRet
    /\ NoSig /\ NoRev /\ NoPlan /\ NoBacktest /\ csv = << >>

(***************************************************************************)
(* Specifications.                                                         *)
(***************************************************************************)
Init == InitSimulate \/ InitNoScale \/ InitReversal

Next ==
    \/ SimulateBar \/ SimulateOpen
    \/ NoScaleBar \/ NoScaleOpen
    \/ ReversalEnter \/ ReversalReturn \/ ReversalBar \/ ReversalOpen

Spec == Init /\ [][Next]_vars

NextSignals == SignalPass \/ SignalReturn

SpecSignals == InitSignals /\ [][NextSignals]_vars

NextScenario == NoScaleBar \/ NoScaleOpen

SpecScenario == InitScenario /\ [][NextScenario]_vars

NextPlan == PlanPass \/ PlanReturn

SpecPlan == InitPlan /\ [][NextPlan]_vars

NextBacktest ==
    \/ BacktestCall \/ SimulateBar \/ SimulateOpen \/ BacktestRecord
    \/ NoScaleBacktestCall \/ NoScaleBar \/ NoScaleOpen \/ NoScaleBacktestRecord
    \/ BacktestSave

SpecBacktest == InitBacktest /\ [][NextBacktest]_vars

NextLoad == LoadRead \/ LoadReturn

SpecLoad == InitLoad /\ [][NextLoad]_vars

\* the single-step scans
InitSingle ==
    InitNoScale \/ InitSignalScan \/ InitReversal \/ InitSimulateNoDrops

NextSingle ==
    \/ NoScaleBar \/ NoScaleOpen
    \/ SignalScanEnter \/ SignalScanBar \/ SignalScanRecord \/ SignalScanReturn
    \/ ReversalEnter \/ ReversalReturn \/ ReversalBar \/ ReversalOpen
    \/ SimulateBar \/ SimulateOpen

SpecSingle == InitSingle /\ [][NextSingle]_vars

(***************************************************************************)
(* Properties of the position simulators.                                  *)
(***************************************************************************)
Scanning == fn \in {"simulate", "simulate_no_scale"}

\* C1: simulate and simulate_no_scale are total.  For every series and every
\* start index inside it the scan goes from bar to bar: the loop variable
\* stays in start + 1 .. len(series) and every pass of the loop either
\* returns or moves on to the next bar, so that the scan ends after at most
\* len(series) - start - 1 bars.  What is returned is one of TP, LIQ, OPEN,
\* with 0 <= hold <= len(series) - start - 1.
C1_Total ==
    /\ [](Scanning =>
            /\ pc = "for" => i \in (start + 1)..Len(df)
            /\ pc = "return" =>
                 /\ ret.res \in {"TP", "LIQ", "OPEN"}
                 /\ ret.hold >= 0
                 /\ ret.hold <= Len(df) - start - 1)
    /\ [][Scanning /\ pc = "for" => (pc' = "return" \/ i' = i + 1)]_vars

\* a scan of the ladder simulator that was liquidated at the last bar of the
\* series, after examining every bar after start
C1_Witness ==
    /\ fn = "simulate"
    /\ pc = "return"
    /\ ret.res = "LIQ"
    /\ ret.hold = Len(df) - start - 1
    /\ ret.hold >= 2

\* a pass of the for loop of simulate, and of the inner loop of the chained
\* driver, is about to examine a bar
SimulateAtBar == fn = "simulate" /\ pc = "for" /\ i < Len(df)
ReversalAtBar == fn = "run_reversal_backtest" /\ pc = "for" /\ offset < Len(df)

\* C2: within one bar the take-profit test comes first.  If the price of the
\* bar reaches the take-profit price that is active when the bar begins (>=
\* for a long position, <= for a short one), the pass ends with TP at this
\* bar: in simulate the ladder step and the list of advances stay as they
\* were and TP is returned with them; in the chained driver the trade is
\* recorded as TP, exited at this bar.
C2_TakeProfitFirst ==
    [][ /\ (SimulateAtBar /\ RGe(Rat(PriceAt(i), 1), tp_price)) =>
             /\ pc' = "return"
             /\ ret'.res = "TP"
             /\ ret'.hold = i - start
             /\ ret'.exit = TimeAt(i)
             /\ ret'.waters = waters
             /\ pos' = pos
             /\ waters' = waters
        /\ ( /\ ReversalAtBar
             /\ \/ direction = "long" /\ RGe(Rat(PriceAt(offset), 1), tp_price)
                \/ direction = "short" /\ RLe(Rat(PriceAt(offset), 1), tp_price) ) =>
             /\ Len(trades') = Len(trades) + 1
             /\ trades'[Len(trades')].Result = "TP"
             /\ trades'[Len(trades')].Direction = direction
             /\ trades'[Len(trades')].Exit_Time = TimeAt(offset)
      ]_vars

\* simulate returned TP at a price that reaches the take-profit price of the
\* step the ladder had advanced to, and not that of the entry
C2_Witness ==
    /\ fn = "simulate"
    /\ pc = "return"
    /\ ret.res = "TP"
    /\ pos >= 1
    /\ Len(ret.waters) = pos
    /\ RGe(Rat(PriceAt(i), 1), tp_price)
    /\ ~RGe(Rat(PriceAt(i), 1), PlanOf(PriceAt(start))[1].tp)

\* C3: on a bar where the ladder advances from step k to a step k' > k,
\* liquidation is decided with the liquidation price of step k', computed
\* from avg, qty and margin of plan[k']: LIQ is returned at that bar iff
\* price <= (avg * qty - margin) / (qty * (1 - MMR)) for these.
C3_LiquidationAfterAdvance ==
    [][ (SimulateAtBar /\ pos' > pos) =>
          LET step == PlanOf(PriceAt(start))[pos' + 1]
          IN  (pc' = "return" /\ ret'.res = "LIQ" /\ ret'.hold = i - start)
                <=> RLe(Rat(PriceAt(i), 1),
                        LiqLong(step.avg, step.qty, step.margin, MMR))
      ]_vars

\* the first bar after start took the ladder from step 0 to step 3, at a
\* price below the liquidation price of step 0, and the scan went on
C3_Witness ==
    /\ fn = "simulate"
    /\ pc = "for"
    /\ i = start + 2
    /\ pos = 3
    /\ RLe(Rat(PriceAt(start + 1), 1), LiqOf(PriceAt(start))[1])

(***************************************************************************)
(* The terminal conditions of a bar, stated from the series alone.         *)
(***************************************************************************)
\* the number of ladder triggers a price has reached (simulate.py, line 71:
\* the triggers fall from step to step)
Reached(entry, price) ==
    Cardinality({ k \in 1..Len(DROPS) :
                  RLe(Rat(price, 1), PlanOf(entry)[k + 1].trigger) })

\* the ladder step in force after the bars start + 1 .. j (lines 71-74)
StepAfter(j) ==
    Max({0} \cup { Reached(PriceAt(start), PriceAt(m)) : m \in (start + 1)..j })

\* the conditions of lines 68 and 80 of simulate.py, and of lines 46 and 50
\* of 단순화.py, at bar j when no bar before it ended the scan
TpAt(j) ==
    RGe(Rat(PriceAt(j), 1),
        IF fn = "simulate"
          THEN PlanOf(PriceAt(start))[StepAfter(j - 1) + 1].tp
          ELSE TpLong(Rat(PriceAt(start), 1), ROI_NET, LEVERAGE))

LiqAt(j) ==
    RLe(Rat(PriceAt(j), 1),
        IF fn = "simulate"
          THEN LiqOf(PriceAt(start))[StepAfter(j) + 1]
          ELSE TradeOf(PriceAt(start)).liq_long)

TerminalAt(j) == TpAt(j) \/ LiqAt(j)

\* the position in df, from 0, of the bar with timestamp t
BarOf(t) == (CHOOSE k \in 1..Len(df) : df[k].time = t) - 1

\* the conditions of lines 56-68 of 연속매매.py for a trade entered at bar e
\* in direction dir, at bar j
TradeTerminalAt(dir, e, j) ==
    IF dir = "long"
      THEN \/ RGe(Rat(PriceAt(j), 1), TpOf(dir, Rat(PriceAt(e), 1), ROI_NET, LEVERAGE))
           \/ RLe(Rat(PriceAt(j), 1), TradeOf(PriceAt(e)).liq_long)
      ELSE \/ RLe(Rat(PriceAt(j), 1), TpOf(dir, Rat(PriceAt(e), 1), ROI_NET, LEVERAGE))
           \/ RGe(Rat(PriceAt(j), 1), TradeOf(PriceAt(e)).liq_short)

\* C4: when a position ends TP or LIQ at bar b, b is the earliest bar after
\* the entry bar at which a terminal condition holds, hold = b - entry >= 1,
\* the exit time is the timestamp of bar b and the exit price its price; for
\* simulate and simulate_no_scale this is said of the returned dict, for the
\* chained driver of every recorded trade that is TP or LIQ.
C4_ExitAtEarliestBar ==
    /\ (Scanning /\ pc = "return" /\ ret.res \in {"TP", "LIQ"}) =>
         /\ ret.hold >= 1
         /\ start + ret.hold <= Len(df) - 1
         /\ TerminalAt(start + ret.hold)
         /\ \A j \in (start + 1)..(start + ret.hold - 1) : ~TerminalAt(j)
         /\ ret.exit = TimeAt(start + ret.hold)
         /\ "exit_price" \in DOMAIN ret
         /\ ret.exit_price = PriceAt(start + ret.hold)
    /\ fn = "run_reversal_backtest" =>
         \A n \in 1..Len(trades) :
           trades[n].Result \in {"TP", "LIQ"} =>
             LET e == BarOf(trades[n].Entry_Time)
                 b == BarOf(trades[n].Exit_Time)
             IN  /\ b > e
                 /\ trades[n].Hold_Min = b - e
                 /\ trades[n].Hold_Min >= 1
                 /\ trades[n].Exit_Price = PriceAt(b)
                 /\ TradeTerminalAt(trades[n].Direction, e, b)
                 /\ \A j \in (e + 1)..(b - 1) :
                      ~TradeTerminalAt(trades[n].Direction, e, j)

\* C5: if no bar after start satisfies a TP or LIQ condition, simulate and
\* simulate_no_scale return OPEN with hold = len(series) - start - 1 and no
\* exit; a series of length 1 gives OPEN with hold 0 and no exit.
C5_OpenAtExhaustion ==
    (Scanning /\ pc = "return") =>
      /\ (\A j \in (start + 1)..(Len(df) - 1) : ~TerminalAt(j)) =>
           /\ ret.res = "OPEN"
           /\ ret.hold = Len(df) - start - 1
           /\ ret.exit = None
      /\ Len(df) = 1 =>
           /\ ret.res = "OPEN"
           /\ ret.hold = 0
           /\ ret.exit = None

\* simulate_no_scale scanned three bars after the entry, none of them
\* terminal, and returned OPEN
C5_Witness ==
    /\ fn = "simulate_no_scale"
    /\ pc = "return"
    /\ ret.res = "OPEN"
    /\ Len(df) - start - 1 = 3
    /\ \A j \in (start + 1)..(Len(df) - 1) : ~TerminalAt(j)

(***************************************************************************)
(* Properties of the chained driver.                                       *)
(***************************************************************************)
Chained == fn = "run_reversal_backtest"

\* C6: in chained mode every trade is entered at a bar whose Signal is
\* true: the first trade at the first Signal bar at or after start_time,
\* each later trade at the first Signal bar at or after the exit time of the
\* trade before it.
C6_EntriesAtSignals ==
    Chained =>
      \A n \in 1..Len(trades) :
        LET from == IF n = 1 THEN start_time ELSE trades[n - 1].Exit_Time
        IN  \E k \in 1..Len(signals) :
              /\ signals[k].signal
              /\ signals[k].time >= from
              /\ \A h \in 1..(k - 1) : ~(signals[h].signal /\ signals[h].time >= from)
              /\ trades[n].Entry_Time = signals[k].time

C8_BoundedChain ==
    Chained =>
      /\ Len(trades) <= Max({Len(df) - 1, 0})
      /\ \A n \in 1..(Len(trades) - 1) :
           BarOf(trades[n].Entry_Time) < BarOf(trades[n + 1].Entry_Time)

\* C9: the chain stops when a trade ends OPEN: an OPEN trade is the last of
\* the sequence, it has no exit time and no exit price, nothing is done after
\* it, and every trade before the last is TP or LIQ with exit time and exit
\* price.
C9_OpenIsLast ==
    Chained =>
      \A n \in 1..Len(trades) :
        /\ trades[n].Result \in {"TP", "LIQ", "OPEN"}
        /\ trades[n].Result = "OPEN" =>
             /\ n = Len(trades)
             /\ pc = "return"
             /\ trades[n].Exit_Time = None
             /\ trades[n].Exit_Price = None
        /\ trades[n].Result # "OPEN" =>
             /\ trades[n].Exit_Time # None
             /\ trades[n].Exit_Price # None
             /\ trades[n].Exit_Price = PriceAt(BarOf(trades[n].Exit_Time))

\* a chain of two closed trades and an OPEN one after them
C9_Witness ==
    /\ Chained
    /\ pc = "return"
    /\ Len(trades) = 3
    /\ trades[3].Result = "OPEN"
    /\ trades[1].Result = "TP"
    /\ trades[2].Result = "LIQ"

(***************************************************************************)
(* Properties of compute_signals.                                          *)
(***************************************************************************)
\* the drop from position t - L to position t of the series meets the
\* threshold n / d: (past - price) / past >= n / d, for a positive past
DropMeets(t, L, th) ==
    /\ t - L >= 1
    /\ (df[t - L].price - df[t].price) * IntOf(th.d) >= IntOf(th.n) * df[t - L].price

\* C10: compute_signals returns a series over the index of the input that is
\* true at a position iff some configured lookback L has a sample L
\* positions earlier and the drop from that sample meets thresholds[L];
\* positions below the smallest lookback are false; the input is unchanged.
C10_SignalDefinition ==
    /\ []((fn = "compute_signals" /\ pc = "return") =>
            /\ Len(signals) = Len(df)
            /\ \A t \in 1..Len(df) :
                 /\ signals[t].time = df[t].time
                 /\ signals[t].signal <=>
                      \E n \in 1..Len(thresholds) :
                        DropMeets(t, thresholds[n][1], thresholds[n][2])
                 /\ (\A n \in 1..Len(thresholds) : t - 1 < thresholds[n][1]) =>
                      ~signals[t].signal)
    /\ [][df' = df]_vars

\* two lookbacks are configured; at the last position the drop over one of
\* them is exactly its threshold and the drop over the other misses its own
C10_Witness ==
    /\ fn = "compute_signals"
    /\ pc = "return"
    /\ Len(thresholds) = 2
    /\ Len(df) = 3
    /\ signals[3].signal
    /\ \E n \in 1..2 :
         /\ DropMeets(3, thresholds[n][1], thresholds[n][2])
         /\ (df[3 - thresholds[n][1]].price - df[3].price) * IntOf(thresholds[n][2].d)
              = IntOf(thresholds[n][2].n) * df[3 - thresholds[n][1]].price
         /\ ~DropMeets(3, thresholds[3 - n][1], thresholds[3 - n][2])

\* the mappings over the lookbacks of thresholds whose threshold is, for
\* every lookback, at or below that of thresholds
LowerThresholds ==
    { lower \in Thresholds :
        /\ { lower[a][1] : a \in 1..Len(lower) }
             = { thresholds[b][1] : b \in 1..Len(thresholds) }
        /\ \A a \in 1..Len(lower) : \A b \in 1..Len(thresholds) :
             lower[a][1] = thresholds[b][1] => RLe(lower[a][2], thresholds[b][2]) }

SignalCount(sig) == Cardinality({ t \in 1..Len(sig) : sig[t].signal })

\* C11: signals are monotone in the thresholds.  For a fixed series and a
\* mapping over the same lookbacks with no threshold above that of
\* thresholds, every position that is a signal under thresholds is a signal
\* under the lower mapping, and the number of signals is not smaller.
C11_SignalMonotone ==
    (fn = "compute_signals" /\ pc = "return") =>
      \A lower \in LowerThresholds :
        \A more \in {SubSeq(compute_signals(df, lower), 1, Len(df))} :
          /\ \A t \in 1..Len(df) : signals[t].signal => more[t].signal
          /\ SignalCount(signals) <= SignalCount(more)

\* a mapping of two lookbacks and a lower mapping under which there is a
\* signal more
C11_Witness ==
    /\ fn = "compute_signals"
    /\ pc = "return"
    /\ Len(thresholds) = 2
    /\ SignalCount(signals) >= 1
    /\ \E lower \in LowerThresholds :
         \E more \in {SubSeq(compute_signals(df, lower), 1, Len(df))} :
           SignalCount(signals) < SignalCount(more)

(***************************************************************************)
(* Properties of make_plan.                                                *)
(***************************************************************************)
Planning == fn = "make_plan"

\* the steps built so far; step k is element k + 1
Built == plan_locals.plan

\* for every step after step 0 the average lies strictly between the
\* trigger of the step and the average of the step before, and the trigger
\* of a step lies below the average of the step before
AverageBetween ==
    \A k \in 2..Len(Built) :
      /\ RLt(Built[k].trigger, Built[k].avg)
      /\ RLt(Built[k].avg, Built[k - 1].avg)
      /\ RLt(Built[k].trigger, Built[k - 1].avg)

TriggersFall == \A k \in 2..Len(Built) : RLt(Built[k].trigger, Built[k - 1].trigger)

\* C12 as stated: for a positive entry price and drop fractions in (0, 1),
\* trigger[i] < avg[i] < avg[i-1] for every step i > 0 and trigger[i+1] <
\* avg[i], and avg, trigger and take-profit price strictly decrease with the
\* step index.
C12_LadderOrder ==
    (Planning /\ plan_entry > 0) =>
      /\ AverageBetween
      /\ \A k \in 2..Len(Built) :
           /\ RLt(Built[k].avg, Built[k - 1].avg)
           /\ RLt(Built[k].tp, Built[k - 1].tp)
      /\ TriggersFall

\* C12, amended: for a positive entry price and drop fractions in (0, 1),
\* trigger[i] < avg[i] < avg[i-1] for every step i > 0 and trigger[i+1] <
\* avg[i]; avg and take-profit price strictly decrease with the step index;
\* the triggers strictly decrease when no drop fraction is smaller than the
\* one before it, as in DROPS.
C12_LadderOrderAmended ==
    (Planning /\ plan_entry > 0) =>
      /\ AverageBetween
      /\ \A k \in 2..Len(Built) :
           /\ RLt(Built[k].avg, Built[k - 1].avg)
           /\ RLt(Built[k].tp, Built[k - 1].tp)
      /\ (\A k \in 2..(Len(Built) - 1) : RLe(plan_drops[k - 1], plan_drops[k]))
           => TriggersFall

\* a plan of four steps returned for a positive entry price, built with a
\* drop fraction smaller than the one before it, whose triggers do not fall
C12_Witness ==
    /\ Planning
    /\ pc = "return"
    /\ plan_entry > 0
    /\ Len(Built) = 4
    /\ ~TriggersFall

ScenarioTpBars == { j \in 1..(Len(df) - 1) : PriceAt(j) * 100 >= 10025 }
ScenarioLiqBars == { j \in 1..(Len(df) - 1) : PriceAt(j) * 398 <= 38000 }

\* C14: with entry price 100, leverage 20, target 0.05, margin 2000 and
\* maintenance margin ratio 0.005, simulate_no_scale uses the take-profit
\* price 100.25, the quantity 400 and the liquidation price 38000/398; a
\* path whose first bar at or above 100.25 comes before its first bar at or
\* below 38000/398 is returned as TP at that bar, and one whose liquidation
\* bar comes first as LIQ at that bar.
C14_SingleStepScenario ==
    (fn = "simulate_no_scale" /\ PriceAt(start) = 100) =>
      /\ LEVERAGE = 20 /\ INIT_M = 2000
      /\ REq(ROI_NET, Rat(5, 100)) /\ REq(MMR, Rat(5, 1000))
      /\ REq(tp_price, Rat(10025, 100))
      /\ REq(TradeOf(PriceAt(start)).qty, Rat(400, 1))
      /\ REq(TradeOf(PriceAt(start)).liq_long, Rat(38000, 398))
      /\ pc = "return" =>
           /\ ( /\ ScenarioTpBars # {}
                /\ \A j \in ScenarioLiqBars : Min(ScenarioTpBars) < j ) =>
                  ret.res = "TP" /\ ret.hold = Min(ScenarioTpBars)
           /\ ( /\ ScenarioLiqBars # {}
                /\ \A j \in ScenarioTpBars : Min(ScenarioLiqBars) < j ) =>
                  ret.res = "LIQ" /\ ret.hold = Min(ScenarioLiqBars)

\* a path that passes 96, reaches 101 and falls to 95 after it: TP at the
\* second bar
C14_Witness ==
    /\ fn = "simulate_no_scale"
    /\ pc = "return"
    /\ PriceAt(start) = 100
    /\ Len(df) = 4
    /\ PriceAt(1) = 96 /\ PriceAt(2) = 101 /\ PriceAt(3) = 95
    /\ ret.res = "TP"
    /\ ret.hold = 2

(***************************************************************************)
(* The exhaustive drivers.                                                 *)
(***************************************************************************)
Backtesting == fn \in {"backtest", "backtest_no_scale"}

\* the outcome of a position entered at the first row of the rows d, said
\* of d alone: the ladder step after the rows 2..j, the take-profit and
\* liquidation conditions at row j, the first row where one of them holds
SliceStep(d, j) ==
    Max({0} \cup { Reached(d[1].price, d[m].price) : m \in 2..j })

SliceTp(d, ladder, j) ==
    RGe(Rat(d[j].price, 1),
        IF ladder THEN PlanOf(d[1].price)[SliceStep(d, j - 1) + 1].tp
        ELSE TpLong(Rat(d[1].price, 1), ROI_NET, LEVERAGE))

SliceLiq(d, ladder, j) ==
    RLe(Rat(d[j].price, 1),
        IF ladder THEN LiqOf(d[1].price)[SliceStep(d, j) + 1]
        ELSE TradeOf(d[1].price).liq_long)

\* the timestamps of the rows 2..j at which the steps were taken
SliceWaters(d, j) ==
    [k \in 1..SliceStep(d, j) |->
       d[Min({ m \in 2..j : Reached(d[1].price, d[m].price) >= k })].time]

\* the rows at which a condition holds
SliceEnds(d, ladder) ==
    { j \in 2..Len(d) : SliceTp(d, ladder, j) \/ SliceLiq(d, ladder, j) }

SliceOutcome(d, ladder) ==
    CHOOSE r \in
      { IF b = 0
          THEN [res |-> "OPEN", hold |-> Len(d) - 1, exit |-> None,
                waters |-> IF ladder THEN SliceWaters(d, Len(d)) ELSE << >>]
        ELSE IF SliceTp(d, ladder, b)
          THEN [res |-> "TP", hold |-> b - 1, exit |-> d[b].time,
                waters |-> IF ladder THEN SliceWaters(d, b - 1) ELSE << >>]
        ELSE [res |-> "LIQ", hold |-> b - 1, exit |-> d[b].time,
              waters |-> IF ladder THEN SliceWaters(d, b) ELSE << >>] :
        b \in { IF g = {} THEN 0 ELSE Min(g) : g \in {SliceEnds(d, ladder)} } } : TRUE

\* C15: the exhaustive drivers make one record for every index of the rows
\* of the month, in index order; the record of index k is the result the
\* simulator returned for k, and that result is the outcome of the rows from
\* k on, whatever the rows before k and the records of the other indices.
C15_OneRecordPerIndex ==
    /\ [](Backtesting =>
            /\ df = SelectSeq(price_df, LAMBDA x : MonthOf(x.time) = month)
            /\ Len(records) = idx
            /\ idx <= Len(df)
            /\ pc \in {"done", "KeyError"} => Len(records) = Len(df)
            /\ \A k \in 1..Len(records) :
                 \A o \in {SliceOutcome(SubSeq(df, k, Len(df)), fn = "backtest")} :
                   /\ records[k].Entry_Time = df[k].time
                   /\ records[k].Entry_Price = df[k].price
                   /\ records[k].Result = o.res
                   /\ records[k].Hold_Min = o.hold
                   /\ records[k].Exit_Time = o.exit
                   /\ fn = "backtest" =>
                        /\ records[k].WaterCnt = Len(o.waters)
                        /\ \A j \in 1..Len(DROPS) :
                             records[k].Water[j] =
                               IF j <= Len(o.waters) THEN o.waters[j] ELSE None)
    /\ [][(Backtesting /\ pc = "return") =>
            /\ Len(records') = Len(records) + 1
            /\ SubSeq(records', 1, Len(records)) = records
            /\ records'[idx + 1].Result = ret.res
            /\ records'[idx + 1].Hold_Min = ret.hold
            /\ records'[idx + 1].Exit_Time = ret.exit
            /\ fn = "backtest" =>
                 \A j \in 1..Len(DROPS) :
                   records'[idx + 1].Water[j] =
                     IF j <= Len(ret.waters) THEN ret.waters[j] ELSE None
         ]_vars

\* the ladder driver has written its files for a month of three rows, of a
\* series that has a row in the month after it: the position of the first
\* row took one step at the second row and its profit at the third, the
\* position of the second row took its profit at the third
C15_Witness ==
    /\ fn = "backtest"
    /\ pc = "done"
    /\ Len(price_df) = 4
    /\ Len(df) = 3
    /\ Len(records) = 3
    /\ records[1].Result = "TP" /\ records[1].WaterCnt = 1 /\ records[1].Hold_Min = 2
    /\ records[2].Result = "TP" /\ records[2].WaterCnt = 0 /\ records[2].Hold_Min = 1
    /\ records[3].Result = "OPEN"

\* C16: when the month matches no row of the series, the exhaustive drivers
\* end without the KeyError of a result table that has no Result column.
C16_EmptyMonthHandled ==
    (Backtesting /\ df = << >>) => pc # "KeyError"

(***************************************************************************)
(* The ladder within simulate, and the plan of make_plan.                  *)
(***************************************************************************)
\* C17: make_plan does not return a plan for an entry price that is not
\* positive.
C17_RejectsNonPositiveEntry ==
    (Planning /\ plan_entry <= 0) => pc # "return"

\* the largest step k' that the price allows from step p: the price is at
\* or below the trigger of every step after p up to k'
LargestStep(entry, p, price) ==
    Max({ k \in p..Len(DROPS) :
          \A j \in (p + 1)..k : RLe(Rat(price, 1), PlanOf(entry)[j + 1].trigger) })

\* C18: in simulate, 0 <= step <= K, len(waters) = step, the take-profit
\* price in force is plan[step].tp and the waters are in non-decreasing
\* order of time; the step never decreases; on a bar that does not end the
\* scan the step becomes the largest step the price allows, and one copy of
\* the timestamp of the bar is appended to the waters for every step taken.
C18_MaximalAdvance ==
    /\ [](fn = "simulate" =>
            /\ pos \in 0..Len(DROPS)
            /\ Len(waters) = pos
            /\ REq(tp_price, PlanOf(PriceAt(start))[pos + 1].tp)
            /\ \A j \in 1..(Len(waters) - 1) : waters[j] <= waters[j + 1])
    /\ [][fn = "simulate" =>
            /\ pos' >= pos
            /\ (SimulateAtBar /\ pc' = "for") =>
                 /\ pos' = LargestStep(PriceAt(start), pos, PriceAt(i))
                 /\ waters' = waters \o [j \in 1..(pos' - pos) |-> TimeAt(i)]
         ]_vars

\* the scan goes on after a bar that took the ladder from step 0 to step 3
\* at once, with three copies of the timestamp of that bar in the waters
C18_Witness ==
    /\ fn = "simulate"
    /\ pc = "for"
    /\ i = start + 2
    /\ pos = 3
    /\ waters = <<TimeAt(start + 1), TimeAt(start + 1), TimeAt(start + 1)>>

\* C19: make_plan returns K + 1 steps for K drop fractions, and the steps
\* are those of the recurrence: step 0 has trigger = avg = entry, margin =
\* initial margin and qty = initial margin * leverage / entry; step k >= 1
\* has trigger = avg of step k - 1 times (1 - d_k), margin = margin of step
\* k - 1 plus the added margin, qty = qty of step k - 1 plus added margin *
\* leverage / trigger, and avg = (initial margin + k * added margin) *
\* leverage / qty, with the drop fractions taken in the order given.
C19_PlanRecurrence ==
    Planning =>
      /\ pc = "return" => Len(Built) = Len(plan_drops) + 1
      /\ Len(Built) >= 1
      /\ REq(Built[1].trigger, Rat(plan_entry, 1))
      /\ REq(Built[1].avg, Rat(plan_entry, 1))
      /\ Built[1].margin = INIT_M
      /\ REq(Built[1].qty, RDiv(Rat(INIT_M * LEVERAGE, 1), Rat(plan_entry, 1)))
      /\ \A k \in 1..(Len(Built) - 1) :
           /\ Built[k + 1].step = k
           /\ REq(Built[k + 1].trigger,
                  RMul(Built[k].avg, RSub(One, plan_drops[k])))
           /\ Built[k + 1].margin = Built[k].margin + ADD_M
           /\ REq(Built[k + 1].qty,
                  RAdd(Built[k].qty,
                       RDiv(Rat(ADD_M * LEVERAGE, 1), Built[k + 1].trigger)))
           /\ REq(Built[k + 1].avg,
                  RDiv(Rat((INIT_M + k * ADD_M) * LEVERAGE, 1), Built[k + 1].qty))

\* the plan returned for the entry price 400 and the drop fractions 0.04,
\* 0.01, 0.02 in this order: four steps, the first trigger at 384
C19_Witness ==
    /\ Planning
    /\ pc = "return"
    /\ plan_entry = 400
    /\ Len(plan_drops) = 3
    /\ REq(plan_drops[1], Rat(4, 100))
    /\ REq(plan_drops[2], Rat(1, 100))
    /\ REq(plan_drops[3], Rat(2, 100))
    /\ Len(Built) = 4
    /\ REq(Built[2].trigger, Rat(384, 1))

(***************************************************************************)
(* The series that load_converted returns.                                 *)
(***************************************************************************)
\* C20: the series load_converted returns is in ascending order of
\* timestamp, with no timestamp twice, whatever the order of the rows of the
\* file; no row whose price could not be parsed is in it.
C20_SortedUnique ==
    (fn = "load_converted" /\ pc = "return") =>
      /\ \A j \in 1..(Len(df) - 1) : df[j].time < df[j + 1].time
      /\ \A j \in 1..Len(df) : df[j].price # NaN

(***************************************************************************)
(* The chained driver and its start time.                                  *)
(***************************************************************************)
\* C21: in the chained driver, for every start_time, every recorded trade
\* is entered at a bar 0..len(series) - 2 whose timestamp is at or after
\* start_time; a trade with an exit has an exit time later than its entry
\* time and Hold_Min = exit bar - entry bar; when no bar lies at or after
\* start_time no trade is recorded.
C21_TradesFromStartTime ==
    Chained =>
      /\ \A n \in 1..Len(trades) :
           /\ BarOf(trades[n].Entry_Time) \in 0..(Len(df) - 2)
           /\ trades[n].Entry_Time >= start_time
           /\ trades[n].Exit_Time # None =>
                /\ trades[n].Exit_Time > trades[n].Entry_Time
                /\ trades[n].Hold_Min =
                     BarOf(trades[n].Exit_Time) - BarOf(trades[n].Entry_Time)
      /\ (\A k \in 1..Len(df) : df[k].time < start_time) => trades = << >>


(***************************************************************************)
(* The default parameters of the ladder.                                   *)
(***************************************************************************)
\* the parameters are those of simulate.py, lines 20-26, and for every entry
\* price the liquidation price of step k - 1 is below the trigger of step k
LiqBelowNextTrigger ==
    /\ LEVERAGE = 20 /\ REq(MMR, Rat(5, 1000)) /\ Len(DROPS) = 4
    /\ \A k \in 1..4 : REq(DROPS[k], Rat(k, 100))
    /\ \A e \in Prices :
         \A k \in 1..Len(DROPS) : RLt(LiqOf(e)[k], PlanOf(e)[k + 1].trigger)

\* C22: with the parameters of simulate.py the liquidation price of every
\* step k < K is strictly below the trigger of step k + 1, so a position is
\* liquidated at the last step only: every LIQ result of simulate has
\* len(waters) = K = 4.
C22_LiquidationAtLastStep ==
    /\ LiqBelowNextTrigger
    /\ (fn = "simulate" /\ pc = "return" /\ ret.res = "LIQ") =>
         /\ Len(ret.waters) = Len(DROPS)
         /\ pos = Len(DROPS)

\* a position is liquidated at the first bar after the entry, whose price
\* took the ladder through its four steps
C22_Witness ==
    /\ fn = "simulate"
    /\ pc = "return"
    /\ ret.res = "LIQ"
    /\ ret.hold = 1
    /\ Len(ret.waters) = 4

\* C23: on a bar where simulate advances the ladder the price of the bar is
\* strictly below the take-profit price of the new step, since price <=
\* trigger < avg < tp at that step; and at no step is the liquidation price
\* as high as the take-profit price, so no price meets both conditions of
\* the same step.
C23_NoMissedTakeProfit ==
    /\ [](fn = "simulate" =>
            /\ RLt(LiqOf(PriceAt(start))[pos + 1], tp_price)
            /\ \A k \in 1..Len(df) :
                 ~( /\ RGe(Rat(df[k].price, 1), tp_price)
                    /\ RLe(Rat(df[k].price, 1), LiqOf(PriceAt(start))[pos + 1]) ))
    /\ [][(SimulateAtBar /\ pos' > pos) =>
            \A step \in {PlanOf(PriceAt(start))[pos' + 1]} :
              /\ RLe(Rat(PriceAt(i), 1), step.trigger)
              /\ RLt(step.trigger, step.avg)
              /\ RLt(step.avg, step.tp)
              /\ RLt(Rat(PriceAt(i), 1), step.tp)
              /\ REq(tp_price', step.tp)
         ]_vars

\* the scan goes on after a bar at 396, the trigger of step 1 of a position
\* entered at 400, which took the ladder to step 1
C23_Witness ==
    /\ fn = "simulate"
    /\ pc = "for"
    /\ i = start + 2
    /\ PriceAt(start) = 400
    /\ PriceAt(start + 1) = 396
    /\ pos = 1

=============================================================================
